---- MODULE Spec2Model ----
(***************************************************************************)
(* ClickhouseLoader (mkpipe_loader_clickhouse/__init__.py): the load       *)
(* orchestration of one batch, step by step, against the manifest store,   *)
(* the parser, the JDBC sink and the staging storage it calls.             *)
(***************************************************************************)
EXTENDS Integers, Sequences, FiniteSets, TLC

\* ------------------------------------------------------------------ bounds
\* load calls the sequential caller makes in one behaviour
MaxCalls == 2

\* ------------------------------------------------------- values and inputs
None == "None"
\* a key the batch dict does not carry
Missing == "<missing>"

Procs == {1, 2}
\* the sequential specification runs one loader process
SeqProcs == {1}

Tables == {"orders", "users"}
Statuses == {"completed", "failed", "extracting", "loading"}

\* data.get(key, default)
Get(d, key, default) == IF d[key] = Missing THEN default ELSE d[key]

\* Python truthiness of the values a batch field takes here ("True" and
\* "False" stand for the booleans)
Truthy(x) == x \notin {None, "", "False"}

\* the batch descriptors handed to load by the one sequential caller
Batches ==
    [table_name : {"orders", Missing},
     file_type : {Missing, "parquet"},
     cursor : {<<Missing, Missing>>, <<"41", "int">>, <<"42", "datetime">>},
     replication_method : {Missing, "incremental"},
     pass_on_error : {Missing, "True", "False"}]

\* the batch descriptors of the caller whose calls are followed to their end:
\* the cursor a batch carries plays no part in how load ends
LiveBatches == {d \in Batches : d.cursor = <<"41", "int">>}

\* the batch descriptors of the concurrent callers
ConcBatches ==
    [table_name : Tables,
     file_type : {Missing, "parquet"},
     cursor : {<<"41", "int">>},
     replication_method : {"incremental"},
     pass_on_error : {"True"}]

NoBatch ==
    [table_name |-> Missing, file_type |-> Missing, cursor |-> <<Missing, Missing>>,
     replication_method |-> Missing, pass_on_error |-> Missing]

\* the locals load binds at lines 48-57
name(d) == d.table_name
file_type(d) == Get(d, "file_type", None)
last_point_value(d) == IF d.cursor[1] = Missing THEN None ELSE d.cursor[1]
iterate_column_type(d) == IF d.cursor[2] = Missing THEN None ELSE d.cursor[2]
replication_method(d) == Get(d, "replication_method", "full")
\* a default of True for the flag
pass_on_error_DefaultTrue(d) == Get(d, "pass_on_error", "True")

pass_on_error(d) == Get(d, "pass_on_error", None)

\* --------------------------------------------------------------- dataframe
\* a dataframe is its list of columns, each a name and the value it holds
EtlCol(t) == [col |-> "etl_time", type |-> "timestamp", v |-> t]
IdCol == [col |-> "id", type |-> "long", v |-> 0]
AmountCol == [col |-> "amount", type |-> "double", v |-> 0]
OldEtlCol == [col |-> "etl_time", type |-> "string", v |-> 0]
NoDf == << >>

\* what the parser may read from the staging path: staged data without the
\* provenance column, with one of its own, or stamped by an earlier attempt
ParsedFrames == {<<IdCol, AmountCol>>, <<IdCol, OldEtlCol, AmountCol>>, <<EtlCol(0), IdCol>>}

Columns(df) == [i \in 1..Len(df) |-> df[i].col]
ColumnSet(df) == {df[i].col : i \in 1..Len(df)}

\* df.drop(c): every column named c goes, the others keep their order
RECURSIVE Drop(_, _)
Drop(df, c) ==
    IF df = << >> THEN << >>
    ELSE IF Head(df).col = c THEN Drop(Tail(df), c)
    ELSE <<Head(df)>> \o Drop(Tail(df), c)

\* df.withColumn(c, value): replaces the columns named c in place, else appends
WithColumn(df, column) ==
    IF column.col \in ColumnSet(df)
    THEN [i \in 1..Len(df) |-> IF df[i].col = column.col THEN column ELSE df[i]]
    ELSE Append(df, column)

\* F.lit(elt_start_time).cast(TimestampType())
CastTimestamp(t) == [type |-> "timestamp", v |-> t]

\* the stamp appended without dropping an earlier one
add_custom_columns_NoDrop(df, elt_start_time) ==
    Append(df, [col |-> "etl_time", type |-> "timestamp", v |-> elt_start_time])

add_custom_columns(df, elt_start_time) ==
    LET lit == CastTimestamp(elt_start_time)
        dropped == IF "etl_time" \in ColumnSet(df) THEN Drop(df, "etl_time") ELSE df
    IN WithColumn(dropped, [col |-> "etl_time", type |-> lit.type, v |-> lit.v])

\* ---------------------------------------------------------------- manifest
\* the row a table has before its first load
InitRow ==
    [value |-> None, value_type |-> None, status |-> "extracting",
     replication_method |-> "full", error_message |-> ""]

\* backend.manifest_table_update: None for value / value_type leaves the
\* stored one unchanged; status, replication method and error message are written
manifest_table_update(row, value, value_type, status, rm, error_message) ==
    [value |-> IF value = None THEN row.value ELSE value,
     value_type |-> IF value_type = None THEN row.value_type ELSE value_type,
     status |-> status,
     replication_method |-> rm,
     error_message |-> error_message]

\* one collaborator call as load issued it; ok is FALSE when the call raised
Entry(op, status, value, value_type, rm, error_message, ok) ==
    [op |-> op, status |-> status, value |-> value, value_type |-> value_type,
     replication_method |-> rm, error_message |-> error_message, ok |-> ok]

CallEntry(op, ok) == Entry(op, None, None, None, None, None, ok)

\* rows one batch appends to the destination table
RowsPerBatch == 2

\* an exception: its text, and whether it is the wrapper raised at line 145
Raised(text) == [text |-> text, wrapped |-> FALSE]
NoExc == Raised(None)

\* str(e) of the exception each collaborator raises
ErrText(op) ==
    CASE op = "manifest" -> "ManifestError"
      [] op = "parser" -> "ParseError"
      [] op = "stamp" -> "AnalysisException"
      [] op = "sink" -> "ConnectionRefused"
      [] op = "cleanup" -> "OSError"
      [] op = "logger" -> "LogError"

\* the arguments of the four manifest updates of load
\* the no-new-data update writing the batch's cursor through
NoDataArgs_WithCursor(d) ==
    Entry("manifest", "completed", last_point_value(d), iterate_column_type(d),
          replication_method(d), "", TRUE)

NoDataArgs(d) == Entry("manifest", "completed", None, None, replication_method(d), "", TRUE)

\* the announcement writing the batch's cursor through
LoadingArgs_WithCursor(d) ==
    Entry("manifest", "loading", last_point_value(d), iterate_column_type(d),
          replication_method(d), "", TRUE)

\* the announcement passing no error message
LoadingArgs_NoClear(d) ==
    Entry("manifest", "loading", None, None, replication_method(d), None, TRUE)

\* the announcement written with the terminal status
LoadingArgs_Completed(d) ==
    Entry("manifest", "completed", None, None, replication_method(d), "", TRUE)

LoadingArgs(d) == Entry("manifest", "loading", None, None, replication_method(d), "", TRUE)

CompletedArgs(d) ==
    Entry("manifest", "completed", last_point_value(d), iterate_column_type(d),
          replication_method(d), "", TRUE)

\* the handler writing the in-between status back
FailedArgs_Loading(d, e) ==
    Entry("manifest", "loading", None, None, replication_method(d), e.text, TRUE)

\* the 'failed' update writing the batch's cursor through
FailedArgs_WithCursor(d, e) ==
    Entry("manifest", "failed", last_point_value(d), iterate_column_type(d),
          replication_method(d), e.text, TRUE)

FailedArgs(d, e) ==
    Entry("manifest", "failed", None, None, replication_method(d), e.text, TRUE)

VARIABLES
    manifest,   \* table name -> manifest row
    dest,       \* table name -> rows appended to the destination table
    staged,     \* tables whose staged files exist
    calls,      \* load calls made so far
    pc,         \* process -> position in load
    data,       \* process -> the batch of the running call
    elt,        \* process -> elt_start_time of the running call
    df,         \* process -> the dataframe local
    exc,        \* process -> text of the exception being handled
    log,        \* process -> collaborator calls issued by the running call
    pre,        \* process -> manifest as it was when the call began
    overlap     \* process -> another load was inside the same table since the call began

vars == <<manifest, dest, staged, calls, pc, data, elt, df, exc, log, pre, overlap>>

Ended == {"returned", "raised", "killed"}

Init ==
    /\ manifest = [t \in Tables |-> InitRow]
    /\ dest = [t \in Tables |-> 0]
    /\ staged = {}
    /\ calls = 0
    /\ pc = [p \in Procs |-> "idle"]
    /\ data = [p \in Procs |-> NoBatch]
    /\ elt = [p \in Procs |-> 0]
    /\ df = [p \in Procs |-> NoDf]
    /\ exc = [p \in Procs |-> NoExc]
    /\ log = [p \in Procs |-> << >>]
    /\ pre = [p \in Procs |-> manifest]
    /\ overlap = [p \in Procs |-> FALSE]

Active(p) == pc[p] \notin ({"idle"} \cup Ended)

\* processes other than p that are inside a load of table t
Others(p, t) == {q \in Procs \ {p} : Active(q) /\ name(data[q]) = t}

\* load is entered with batch d; the upstream stage has staged the files of a
\* batch that carries a file type
Enter(p, d) ==
    /\ ~Active(p)
    /\ calls' = calls + 1
    /\ data' = [data EXCEPT ![p] = d]
    /\ elt' = [elt EXCEPT ![p] = calls + 1]
    /\ pc' = [pc EXCEPT ![p] = "start"]
    /\ df' = [df EXCEPT ![p] = NoDf]
    /\ exc' = [exc EXCEPT ![p] = NoExc]
    /\ log' = [log EXCEPT ![p] = << >>]
    /\ pre' = [pre EXCEPT ![p] = manifest]
    /\ overlap' = [q \in Procs |->
                     IF q = p THEN Others(p, name(d)) # {}
                     ELSE overlap[q] \/ (name(d) # Missing /\ name(data[q]) = name(d))]
    /\ staged' = IF name(d) # Missing /\ Truthy(file_type(d))
                 THEN staged \cup {name(d)} ELSE staged
    /\ UNCHANGED <<manifest, dest>>

\* the sequential caller hands one batch after the other to load
Call(p, d) ==
    /\ calls < MaxCalls
    /\ Enter(p, d)

\* a loader process of the concurrent run makes its one call
ConcCall(p, d) ==
    /\ pc[p] = "idle"
    /\ Enter(p, d)

\* lines 46-59: bind the locals, then branch on the file type
Start(p) ==
    /\ pc[p] = "start"
    /\ IF name(data[p]) = Missing
       THEN /\ pc' = [pc EXCEPT ![p] = "except"]
            /\ exc' = [exc EXCEPT ![p] = Raised("KeyError")]
       ELSE /\ pc' = [pc EXCEPT ![p] =
                        IF ~Truthy(file_type(data[p])) THEN "nodata" ELSE "loading"]
            /\ exc' = exc
    /\ UNCHANGED <<manifest, dest, staged, calls, data, elt, df, log, pre, overlap>>

\* a manifest update that is not keyed by the table name
Update_WrongRow(p, args, okpc, ok) ==
    /\ log' = [log EXCEPT ![p] = Append(@, [args EXCEPT !.ok = ok])]
    /\ IF ok
       THEN /\ manifest' = [t \in Tables |->
                    manifest_table_update(manifest[t], args.value, args.value_type,
                        args.status, args.replication_method, args.error_message)]
            /\ pc' = [pc EXCEPT ![p] = okpc]
            /\ exc' = exc
       ELSE /\ manifest' = manifest
            /\ pc' = [pc EXCEPT ![p] = "except"]
            /\ exc' = [exc EXCEPT ![p] = Raised(ErrText("manifest"))]
    /\ UNCHANGED <<dest, staged, calls, data, elt, df, pre, overlap>>

\* one self.backend.manifest_table_update call inside the try block: it
\* either writes the row and load goes on at okpc, or raises
Update(p, args, okpc, ok) ==
    /\ log' = [log EXCEPT ![p] = Append(@, [args EXCEPT !.ok = ok])]
    /\ IF ok
       THEN /\ manifest' = [manifest EXCEPT ![name(data[p])] =
                    manifest_table_update(@, args.value, args.value_type, args.status,
                                          args.replication_method, args.error_message)]
            /\ pc' = [pc EXCEPT ![p] = okpc]
            /\ exc' = exc
       ELSE /\ manifest' = manifest
            /\ pc' = [pc EXCEPT ![p] = "except"]
            /\ exc' = [exc EXCEPT ![p] = Raised(ErrText("manifest"))]
    /\ UNCHANGED <<dest, staged, calls, data, elt, df, pre, overlap>>

\* the no-new-data update outside the try block: its exception reaches the
\* caller directly
NoData_Unguarded(p) ==
    /\ pc[p] = "nodata"
    /\ \E ok \in BOOLEAN :
        LET args == NoDataArgs(data[p]) IN
        /\ log' = [log EXCEPT ![p] = Append(@, [args EXCEPT !.ok = ok])]
        /\ manifest' = IF ok
                       THEN [manifest EXCEPT ![name(data[p])] =
                              manifest_table_update(@, args.value, args.value_type,
                                  args.status, args.replication_method, args.error_message)]
                       ELSE manifest
        /\ pc' = [pc EXCEPT ![p] = IF ok THEN "returned" ELSE "raised"]
        /\ exc' = IF ok THEN exc ELSE [exc EXCEPT ![p] = Raised(ErrText("manifest"))]
    /\ UNCHANGED <<dest, staged, calls, data, elt, df, pre, overlap>>

\* lines 59-69: no new data
NoData(p) ==
    /\ pc[p] = "nodata"
    /\ \E ok \in BOOLEAN : Update(p, NoDataArgs(data[p]), "returned", ok)

\* lines 71-78
MarkLoading(p) ==
    /\ pc[p] = "loading"
    /\ \E ok \in BOOLEAN : Update(p, LoadingArgs(data[p]), "parse", ok)

\* a raising step answered by starting over from the parser
Raise_Retry(p, op) ==
    /\ log' = [log EXCEPT ![p] = Append(@, CallEntry(op, FALSE))]
    /\ pc' = [pc EXCEPT ![p] = "parse"]
    /\ exc' = exc

\* a step of the try block raises
Raise(p, op) ==
    /\ log' = [log EXCEPT ![p] = Append(@, CallEntry(op, FALSE))]
    /\ pc' = [pc EXCEPT ![p] = "except"]
    /\ exc' = [exc EXCEPT ![p] = Raised(ErrText(op))]

\* the staged files removed as soon as they are parsed
Parse_ThenCleanup(p) ==
    /\ pc[p] = "parse"
    /\ \E f \in ParsedFrames : df' = [df EXCEPT ![p] = f]
    /\ log' = [log EXCEPT ![p] =
                 @ \o <<CallEntry("parser", TRUE), CallEntry("cleanup", TRUE)>>]
    /\ staged' = staged \ {name(data[p])}
    /\ pc' = [pc EXCEPT ![p] = "stamp"]
    /\ UNCHANGED <<manifest, dest, calls, data, elt, exc, pre, overlap>>

\* line 80: get_parser(file_type)(data, self.settings)
Parse(p) ==
    /\ pc[p] = "parse"
    /\ \/ /\ \E f \in ParsedFrames : df' = [df EXCEPT ![p] = f]
          /\ log' = [log EXCEPT ![p] = Append(@, CallEntry("parser", TRUE))]
          /\ pc' = [pc EXCEPT ![p] = "stamp"]
          /\ exc' = exc
       \/ /\ Raise(p, "parser")
          /\ df' = df
    /\ UNCHANGED <<manifest, dest, staged, calls, data, elt, pre, overlap>>

\* lines 81-87: stamp the dataframe, log the partition count
Stamp(p) ==
    /\ pc[p] = "stamp"
    /\ \/ /\ df' = [df EXCEPT ![p] = add_custom_columns(@, elt[p])]
          /\ log' = [log EXCEPT ![p] = Append(@, CallEntry("stamp", TRUE))]
          /\ pc' = [pc EXCEPT ![p] = "write"]
          /\ exc' = exc
       \/ /\ Raise(p, "stamp")
          /\ df' = df
    /\ UNCHANGED <<manifest, dest, staged, calls, data, elt, pre, overlap>>

\* lines 89-99: df.write.format('jdbc').mode('append')...save(); a write that
\* raises may have appended some of the batch's rows already
Write(p) ==
    /\ pc[p] = "write"
    /\ \/ /\ dest' = [dest EXCEPT ![name(data[p])] = @ + RowsPerBatch]
          /\ log' = [log EXCEPT ![p] = Append(@, CallEntry("sink", TRUE))]
          /\ pc' = [pc EXCEPT ![p] = "completed"]
          /\ exc' = exc
       \/ /\ \E k \in 0..(RowsPerBatch - 1) :
                dest' = [dest EXCEPT ![name(data[p])] = @ + k]
          /\ Raise(p, "sink")
    /\ UNCHANGED <<manifest, staged, calls, data, elt, df, pre, overlap>>

\* lines 101-109
MarkCompleted(p) ==
    /\ pc[p] = "completed"
    /\ \E ok \in BOOLEAN : Update(p, CompletedArgs(data[p]), "cleanup", ok)

\* lines 111-115: remove_partitioned_parquet(data['path'])
Cleanup(p) ==
    /\ pc[p] = "cleanup"
    /\ \/ /\ staged' = staged \ {name(data[p])}
          /\ log' = [log EXCEPT ![p] = Append(@, CallEntry("cleanup", TRUE))]
          /\ pc' = [pc EXCEPT ![p] = "success"]
          /\ exc' = exc
       \/ /\ Raise(p, "cleanup")
          /\ staged' = staged
    /\ UNCHANGED <<manifest, dest, calls, data, elt, df, pre, overlap>>

\* lines 117-119 and the return of line 146
LogSuccess(p) ==
    /\ pc[p] = "success"
    /\ \/ /\ log' = [log EXCEPT ![p] = Append(@, CallEntry("logger", TRUE))]
          /\ pc' = [pc EXCEPT ![p] = "returned"]
          /\ exc' = exc
       \/ Raise(p, "logger")
    /\ UNCHANGED <<manifest, dest, staged, calls, data, elt, df, pre, overlap>>

\* lines 121-138: the except handler; with table_name never bound, building
\* the message raises out of the handler, and so does a failing update
Except(p) ==
    /\ pc[p] = "except"
    /\ IF name(data[p]) = Missing
       THEN /\ pc' = [pc EXCEPT ![p] = "raised"]
            /\ exc' = [exc EXCEPT ![p] = Raised("UnboundLocalError")]
            /\ log' = [log EXCEPT ![p] = Append(@, CallEntry("except", FALSE))]
            /\ manifest' = manifest
       ELSE \E ok \in BOOLEAN :
            LET args == FailedArgs(data[p], exc[p]) IN
            /\ log' = [log EXCEPT ![p] =
                         @ \o <<CallEntry("except", TRUE), [args EXCEPT !.ok = ok]>>]
            /\ IF ok
               THEN /\ manifest' = [manifest EXCEPT ![name(data[p])] =
                            manifest_table_update(@, args.value, args.value_type,
                                args.status, args.replication_method, args.error_message)]
                    /\ pc' = [pc EXCEPT ![p] = "branch"]
                    /\ exc' = exc
               ELSE /\ manifest' = manifest
                    /\ pc' = [pc EXCEPT ![p] = "raised"]
                    /\ exc' = [exc EXCEPT ![p] = Raised(ErrText("manifest"))]
    /\ UNCHANGED <<dest, staged, calls, data, elt, df, pre, overlap>>

\* the handler re-raising whatever the flag says
Branch_AlwaysRaise(p) ==
    /\ pc[p] = "branch"
    /\ pc' = [pc EXCEPT ![p] = "raised"]
    /\ exc' = [exc EXCEPT ![p] = [text |-> @.text, wrapped |-> TRUE]]
    /\ UNCHANGED <<manifest, dest, staged, calls, data, elt, df, log, pre, overlap>>

\* lines 140-145: swallow or re-raise
Branch(p) ==
    /\ pc[p] = "branch"
    /\ IF Truthy(pass_on_error(data[p]))
       THEN /\ pc' = [pc EXCEPT ![p] = "returned"]
            /\ exc' = exc
       ELSE /\ pc' = [pc EXCEPT ![p] = "raised"]
            /\ exc' = [exc EXCEPT ![p] = [text |-> @.text, wrapped |-> TRUE]]
    /\ UNCHANGED <<manifest, dest, staged, calls, data, elt, df, log, pre, overlap>>

\* the process is killed inside load
Kill(p) ==
    /\ Active(p)
    /\ pc' = [pc EXCEPT ![p] = "killed"]
    /\ UNCHANGED <<manifest, dest, staged, calls, data, elt, df, exc, log, pre, overlap>>

\* the statements of load, each at its position
Run(p) ==
    \/ Start(p)
    \/ NoData(p)
    \/ MarkLoading(p)
    \/ Parse(p)
    \/ Stamp(p)
    \/ Write(p)
    \/ MarkCompleted(p)
    \/ Cleanup(p)
    \/ LogSuccess(p)
    \/ Except(p)
    \/ Branch(p)

Step(p) ==
    \/ Run(p)
    \/ Kill(p)

Next ==
    \E p \in SeqProcs :
        \/ \E d \in Batches : Call(p, d)
        \/ Step(p)

Spec == Init /\ [][Next]_vars

\* loader processes calling load side by side, one call each
NextConc ==
    \E p \in Procs :
        \/ \E d \in ConcBatches : ConcCall(p, d)
        \/ Step(p)

SpecConc == Init /\ [][NextConc]_vars

\* one caller whose process is not killed and whose collaborators return or
\* raise: a call that has started executes its next statement
NextLive ==
    \E p \in SeqProcs :
        \/ \E d \in LiveBatches : Call(p, d)
        \/ Run(p)

SpecLive == Init /\ [][NextLive]_vars /\ \A p \in SeqProcs : WF_vars(Run(p))

\* ------------------------------------------------------------- properties
\* the manifest updates the running call of p issued, in order
ManifestLog(p) == SelectSeq(log[p], LAMBDA e : e.op = "manifest")

StatusSeq(p) == [i \in 1..Len(ManifestLog(p)) |-> ManifestLog(p)[i].status]

\* positions in log[p] of the calls of collaborator op
At(p, op) == {i \in 1..Len(log[p]) : log[p][i].op = op}

Issued(p, op) == At(p, op) # {}
Succeeded(p, op) == \E i \in At(p, op) : log[p][i].ok
Failed(p, op) == \E i \in At(p, op) : ~log[p][i].ok

\* positions of the manifest updates with a given status
AtStatus(p, st) == {i \in At(p, "manifest") : log[p][i].status = st}

\* every manifest update the call issued returned normally
StoreUp(p) == \A i \in At(p, "manifest") : log[p][i].ok

\* the call has ended by returning or raising
Finished(p) == pc[p] \in {"returned", "raised"}

HasTable(p) == name(data[p]) # Missing
HasFileType(p) == HasTable(p) /\ Truthy(file_type(data[p]))
NoNewData(p) == HasTable(p) /\ ~Truthy(file_type(data[p]))

Row(p) == manifest[name(data[p])]
PreRow(p) == pre[p][name(data[p])]
CursorOf(row) == <<row.value, row.value_type>>

\* C1 as stated (read with a manifest store that does not fail): for a load
\* whose batch carries a file type, the 'loading' update precedes every parser
\* and sink call, and the statuses written are 'loading' then exactly one of
\* 'completed' or 'failed'.
C1_Original ==
    \A p \in Procs : HasFileType(p) =>
        /\ \A i \in At(p, "parser") \cup At(p, "sink") :
              \E j \in AtStatus(p, "loading") : j < i
        /\ (Finished(p) /\ StoreUp(p)) =>
              StatusSeq(p) \in {<<"loading", "completed">>, <<"loading", "failed">>}

\* C2 as stated (read with a manifest store that does not fail): a load that
\* ends with manifest status 'failed' leaves cursor value and type as they
\* were before the call, and the cursor differs from before only after a load
\* that completed successfully.
C2_Original ==
    \A p \in Procs : (Finished(p) /\ HasTable(p) /\ StoreUp(p)) =>
        /\ Row(p).status = "failed" => CursorOf(Row(p)) = CursorOf(PreRow(p))
        /\ CursorOf(Row(p)) # CursorOf(PreRow(p)) =>
              (pc[p] = "returned" /\ ~Issued(p, "except"))

FailedWritten(p) == \E i \in AtStatus(p, "failed") : log[p][i].ok

C4_Original ==
    \A p \in Procs : NoNewData(p) =>
        /\ ~Issued(p, "parser") /\ ~Issued(p, "sink") /\ ~Issued(p, "cleanup")
        /\ (Finished(p) /\ \A i \in AtStatus(p, "failed") : log[p][i].ok) =>
              /\ Row(p).status = "completed"
              /\ CursorOf(Row(p)) = CursorOf(PreRow(p))

\* C4 amended: no parser, sink or cleanup call and the cursor as before the
\* call in every case; the row ends 'completed' when the 'completed' update
\* returns normally, and when it raises the handler of load runs and a
\* 'failed' update that returns normally leaves the row 'failed'.
C4_Amended ==
    \A p \in Procs : NoNewData(p) =>
        /\ ~Issued(p, "parser") /\ ~Issued(p, "sink") /\ ~Issued(p, "cleanup")
        /\ Finished(p) =>
              /\ CursorOf(Row(p)) = CursorOf(PreRow(p))
              /\ StoreUp(p) => (Row(p).status = "completed" /\ pc[p] = "returned")
              /\ (~StoreUp(p) /\ FailedWritten(p)) =>
                    /\ Row(p).status = "failed"
                    /\ Row(p).error_message = ErrText("manifest")

C4_Witness ==
    \E p \in Procs :
        /\ NoNewData(p)
        /\ pc[p] = "returned"
        /\ data[p].cursor = <<"42", "datetime">>
        /\ PreRow(p).status = "failed"
        /\ CursorOf(PreRow(p)) = <<"41", "int">>
        /\ CursorOf(Row(p)) = <<"41", "int">>
        /\ Row(p).status = "completed"

\* the steps of the try block that raised
RaisingSteps(p) ==
    {i \in 1..Len(log[p]) :
        /\ ~log[p][i].ok
        /\ log[p][i].op # "except"
        /\ ~(log[p][i].op = "manifest" /\ log[p][i].status = "failed")}

\* C5: an exception of any step of a load with a file type, a manifest update
\* included, is caught once, and the handler issues exactly one 'failed'
\* update, cursor fields None, error message the text of the exception; a
\* load in which no step raised never enters the handler.
C5_SingleHandler ==
    \A p \in Procs : HasFileType(p) =>
        /\ Cardinality(At(p, "except")) <= 1
        /\ Cardinality(RaisingSteps(p)) <= 1
        /\ RaisingSteps(p) = {} => (At(p, "except") = {} /\ AtStatus(p, "failed") = {})
        /\ (RaisingSteps(p) # {} /\ pc[p] \in {"branch", "returned", "raised"}) =>
              /\ Cardinality(At(p, "except")) = 1
              /\ Cardinality(AtStatus(p, "failed")) = 1
              /\ \A i \in AtStatus(p, "failed") : \A j \in RaisingSteps(p) :
                    /\ i = Len(log[p])
                    /\ j < i
                    /\ log[p][i].value = None
                    /\ log[p][i].value_type = None
                    /\ log[p][i].error_message = ErrText(log[p][j].op)

C5_Witness ==
    \E p \in Procs :
        /\ pc[p] = "branch"
        /\ data[p].cursor = <<"41", "int">>
        /\ \E i \in AtStatus(p, "completed") : ~log[p][i].ok
        /\ Row(p).status = "failed"
        /\ Row(p).error_message = "ManifestError"

\* C7 as stated (read with a manifest store that does not fail and a batch
\* that carries a cursor): once parser and sink succeeded the row ends
\* 'completed' with the batch's cursor value, cursor type and replication
\* method and an empty error message.
C7_Original ==
    \A p \in Procs :
        (/\ Finished(p) /\ HasFileType(p) /\ StoreUp(p)
         /\ Succeeded(p, "parser") /\ Succeeded(p, "sink")
         /\ data[p].cursor[1] # Missing) =>
            Row(p) = [value |-> data[p].cursor[1], value_type |-> data[p].cursor[2],
                      status |-> "completed",
                      replication_method |-> replication_method(data[p]),
                      error_message |-> ""]

\* C9 as stated (read with a manifest store that does not fail): a successful
\* load issues 'loading' then 'completed', a load that fails after 'loading'
\* issues 'loading' then one 'failed', the no-new-data path issues one
\* 'completed'.
C9_Original ==
    \A p \in Procs : (Finished(p) /\ HasTable(p) /\ StoreUp(p)) =>
        IF NoNewData(p) THEN StatusSeq(p) = <<"completed">>
        ELSE IF Issued(p, "except") THEN StatusSeq(p) = <<"loading", "failed">>
        ELSE StatusSeq(p) = <<"loading", "completed">>

Count(f, c) == Cardinality({i \in 1..Len(f) : f[i].col = c})
NonEtl(f) == SelectSeq(f, LAMBDA x : x.col # "etl_time")
EtlOf(f) == {[type |-> f[i].type, v |-> f[i].v] : i \in {j \in 1..Len(f) : f[j].col = "etl_time"}}

\* C10: stamping a parsed structure, with or without an 'etl_time' column,
\* gives exactly one 'etl_time' column and keeps the other columns; stamping
\* the result again gives the same columns, 'etl_time' holding the timestamp
\* of the second stamping; and the structure load writes is stamped so.
C10_StampIdempotent ==
    \A p \in Procs :
        /\ pc[p] = "stamp" =>
              LET once == add_custom_columns(df[p], elt[p])
                  twice == add_custom_columns(once, elt[p] + 1)
              IN /\ Count(once, "etl_time") = 1
                 /\ NonEtl(once) = NonEtl(df[p])
                 /\ EtlOf(once) = {[type |-> "timestamp", v |-> elt[p]]}
                 /\ Count(twice, "etl_time") = 1
                 /\ Columns(twice) = Columns(once)
                 /\ NonEtl(twice) = NonEtl(once)
                 /\ EtlOf(twice) = {[type |-> "timestamp", v |-> elt[p] + 1]}
        /\ pc[p] \in {"write", "completed", "cleanup", "success"} =>
              /\ Count(df[p], "etl_time") = 1
              /\ EtlOf(df[p]) = {[type |-> "timestamp", v |-> elt[p]]}
              /\ NonEtl(df[p]) \in {NonEtl(f) : f \in ParsedFrames}

\* the frame written came from staged data that an earlier attempt stamped
C10_Witness ==
    \E p \in Procs :
        /\ pc[p] = "write"
        /\ elt[p] = 2
        /\ df[p] = <<IdCol, EtlCol(2)>>

\* the call of p has written 'loading' and issued no manifest update since
AfterLoadingOnly(p) ==
    /\ HasFileType(p)
    /\ Len(ManifestLog(p)) = 1
    /\ ManifestLog(p)[1].ok

\* C8: while no other load has been inside the same table, the row's status is
\* 'loading' from the 'loading' update of a load until its next manifest
\* update, so a load killed while parsing, stamping or writing leaves the row
\* at 'loading'.
C8_StuckLoading ==
    \A p \in Procs : (AfterLoadingOnly(p) /\ ~overlap[p]) =>
        /\ pc[p] \in {"parse", "stamp", "write", "completed", "except", "killed"}
        /\ Row(p).status = "loading"
        /\ Row(p).error_message = ""

C8_Witness ==
    \E p \in Procs : \E q \in Procs \ {p} :
        /\ pc[p] = "killed"
        /\ AfterLoadingOnly(p)
        /\ Succeeded(p, "stamp")
        /\ ~Issued(p, "sink")
        /\ ~overlap[p]
        /\ pc[q] = "returned"
        /\ Row(q).status = "completed"
        /\ Row(p).status = "loading"

\* the no-new-data 'completed' update of the call raised
NoDataUpdateRaised(p) == \E i \in AtStatus(p, "completed") : ~log[p][i].ok

\* C11 as stated: an error before the 'loading' update does not reach the
\* failure handler, so a load whose batch has no file type never writes a
\* manifest update with status 'failed'.
C11_Original ==
    \A p \in Procs : data[p].file_type = Missing => ~FailedWritten(p)

\* C11 amended: the no-new-data branch never marks 'loading' nor reaches
\* parser or sink, but it is inside the guarded block: the handler runs, and
\* issues its one 'failed' update, exactly when the no-new-data 'completed'
\* update raised; an error while reading the table name enters the handler
\* too, which raises itself before any manifest update.
C11_Amended ==
    \A p \in Procs :
        /\ (data[p].table_name # Missing /\ data[p].file_type = Missing) =>
              /\ AtStatus(p, "loading") = {}
              /\ ~Issued(p, "parser") /\ ~Issued(p, "sink")
              /\ Issued(p, "except") => NoDataUpdateRaised(p)
              /\ pc[p] \in {"branch", "returned", "raised"} =>
                    /\ NoDataUpdateRaised(p) <=>
                          (Issued(p, "except") /\ Cardinality(AtStatus(p, "failed")) = 1)
                    /\ ~NoDataUpdateRaised(p) => AtStatus(p, "failed") = {}
              /\ pc[p] = "branch" =>
                    /\ Row(p).status = "failed"
                    /\ Row(p).error_message = "ManifestError"
        /\ (data[p].table_name = Missing /\ pc[p] # "idle") =>
              /\ At(p, "manifest") = {}
              /\ manifest = pre[p]
              /\ Finished(p) =>
                    /\ pc[p] = "raised"
                    /\ exc[p] = Raised("UnboundLocalError")
                    /\ Failed(p, "except")

C11_Witness ==
    \E p \in Procs :
        /\ data[p].table_name # Missing /\ data[p].file_type = Missing
        /\ pc[p] = "branch"
        /\ NoDataUpdateRaised(p)
        /\ PreRow(p).status = "completed"
        /\ Row(p).status = "failed"

JustAnnounced(p) == HasTable(p) /\ pc[p] = "parse"
JustNoData(p) == NoNewData(p) /\ pc[p] = "returned" /\ ~Issued(p, "except")

\* the replication method the batch carries, 'full' when it carries none
BatchMethod(p) ==
    IF data[p].replication_method = Missing THEN "full" ELSE data[p].replication_method

\* C13 as stated: the no-new-data update and the 'loading' update pass the
\* cursor as unchanged and change only status and error message of the row;
\* the stored replication mode is as before the update.
C13_Original ==
    \A p \in Procs :
        /\ JustAnnounced(p) =>
              Row(p) = [PreRow(p) EXCEPT !.status = "loading", !.error_message = ""]
        /\ JustNoData(p) =>
              Row(p) = [PreRow(p) EXCEPT !.status = "completed", !.error_message = ""]

\* C13 amended: both updates pass the cursor as unchanged and write status,
\* error message and replication mode: the stored replication mode becomes the
\* batch's replication_method, 'full' when the batch carries none.
C13_Amended ==
    \A p \in Procs :
        /\ JustAnnounced(p) =>
              /\ \A i \in AtStatus(p, "loading") :
                    log[p][i].value = None /\ log[p][i].value_type = None
              /\ Row(p) = [PreRow(p) EXCEPT !.status = "loading", !.error_message = "",
                                            !.replication_method = BatchMethod(p)]
        /\ JustNoData(p) =>
              /\ \A i \in AtStatus(p, "completed") :
                    log[p][i].value = None /\ log[p][i].value_type = None
              /\ Row(p) = [PreRow(p) EXCEPT !.status = "completed", !.error_message = "",
                                            !.replication_method = BatchMethod(p)]

C13_Witness ==
    \E p \in Procs :
        /\ JustAnnounced(p)
        /\ data[p].cursor = <<"42", "datetime">>
        /\ data[p].replication_method = Missing
        /\ PreRow(p).replication_method = "incremental"
        /\ PreRow(p).error_message = "OSError"
        /\ CursorOf(PreRow(p)) = <<"41", "int">>
        /\ Row(p) = [value |-> "41", value_type |-> "int", status |-> "loading",
                     replication_method |-> "full", error_message |-> ""]

\* C14: the staging path is deleted at most once per load, only after the sink
\* write succeeded and the 'completed' update was written, nothing having
\* raised before; a load in which parser, stamping, sink write or a manifest
\* update raised does not call the deletion and its staged files remain.
C14_CleanupOnlyOnSuccess ==
    \A p \in Procs :
        /\ Cardinality(At(p, "cleanup")) <= 1
        /\ \A i \in At(p, "cleanup") :
              /\ \E j \in At(p, "sink") : j < i /\ log[p][j].ok
              /\ \E k \in AtStatus(p, "completed") : k < i /\ log[p][k].ok
              /\ \A j \in 1..(i - 1) : log[p][j].ok /\ log[p][j].op # "except"
        /\ (data[p].table_name # Missing /\ data[p].file_type # Missing
              /\ \E j \in RaisingSteps(p) :
                    log[p][j].op \in {"parser", "stamp", "sink", "manifest"}) =>
              /\ ~Issued(p, "cleanup")
              /\ data[p].table_name \in staged

C14_Witness ==
    \E p \in Procs :
        /\ pc[p] = "raised"
        /\ Failed(p, "sink")
        /\ FailedWritten(p)
        /\ ~Issued(p, "cleanup")
        /\ data[p].table_name \in staged

\* C15: no retry inside load: one call invokes the parser at most once and the
\* sink write at most once, and once any step has raised, that call invokes
\* neither the parser nor the sink again.
C15_NoRetry ==
    \A p \in Procs :
        /\ Cardinality(At(p, "parser")) <= 1
        /\ Cardinality(At(p, "sink")) <= 1
        /\ \A j \in 1..Len(log[p]) :
              ~log[p][j].ok =>
                  \A i \in At(p, "parser") \cup At(p, "sink") : i <= j

C15_Witness ==
    \E p \in Procs :
        /\ pc[p] = "returned"
        /\ data[p].pass_on_error = "True"
        /\ Failed(p, "sink")
        /\ Cardinality(At(p, "sink")) = 1
        /\ Cardinality(At(p, "parser")) = 1

\* C16: every manifest update load issues with status 'loading' or 'completed'
\* passes the empty error message, and only 'failed' updates pass a text, the
\* text of the exception the handler caught; so a manifest row whose status is
\* 'loading' or 'completed' always carries the empty error message.
C16_ErrorOnlyWithFailed ==
    /\ \A p \in Procs : \A i \in At(p, "manifest") :
          /\ log[p][i].status \in {"loading", "completed"} =>
                log[p][i].error_message = ""
          /\ log[p][i].error_message # "" => log[p][i].status = "failed"
          /\ log[p][i].status = "failed" =>
                /\ i > 2
                /\ log[p][i - 1].op = "except"
                /\ ~log[p][i - 2].ok
                /\ log[p][i].error_message = ErrText(log[p][i - 2].op)
    /\ \A t \in Tables :
          manifest[t].status \in {"loading", "completed"} =>
              manifest[t].error_message = ""

C16_Witness ==
    \E p \in Procs :
        /\ pc[p] = "parse"
        /\ PreRow(p).status = "failed"
        /\ PreRow(p).error_message = "ConnectionRefused"
        /\ Row(p).status = "loading"
        /\ Row(p).error_message = ""

\* C17 as stated (read with a manifest store that does not fail): a load that
\* ends with the manifest row 'failed' did not complete its sink write, and
\* the destination does not hold the batch's rows from that call.
C17_Original ==
    \A p \in Procs :
        (Finished(p) /\ HasTable(p) /\ StoreUp(p) /\ Row(p).status = "failed") =>
            /\ ~Succeeded(p, "sink")
            /\ calls = 1 => dest[data[p].table_name] < RowsPerBatch

\* the status of the last manifest update the call of p issued
LastStatus(p) == ManifestLog(p)[Len(ManifestLog(p))].status

\* C18: with collaborators that return or raise and a process that is not
\* killed, every load call that has started ends by returning or raising; and
\* when its manifest updates all succeeded, the last status an ended call
\* wrote for its table is 'completed' or 'failed' and is the row's status,
\* which is therefore not 'loading'.
C18_TerminatesSettled ==
    /\ \A p \in Procs : (pc[p] = "start") ~> Finished(p)
    /\ [](\A p \in Procs :
            (Finished(p) /\ data[p].table_name # Missing /\ StoreUp(p)) =>
                /\ ManifestLog(p) # << >>
                /\ LastStatus(p) \in {"completed", "failed"}
                /\ Row(p).status = LastStatus(p)
                /\ Row(p).status # "loading")

C18_Witness ==
    \E p \in Procs :
        /\ pc[p] = "raised"
        /\ StoreUp(p)
        /\ Failed(p, "parser")
        /\ StatusSeq(p) = <<"loading", "failed">>
        /\ Row(p).status = "failed"

\* the row a call leaves when it runs alone: its own manifest updates that
\* returned normally, applied in order to the row it found
RECURSIVE Replay(_, _)
Replay(row, entries) ==
    IF entries = << >> THEN row
    ELSE LET e == Head(entries) IN
         Replay(IF e.ok
                THEN manifest_table_update(row, e.value, e.value_type, e.status,
                                           e.replication_method, e.error_message)
                ELSE row,
                Tail(entries))

\* a step changes the row of table t only on behalf of a call for table t
OwnRowOnly ==
    \A t \in Tables :
        manifest'[t] # manifest[t] =>
            \E p \in Procs : log'[p] # log[p] /\ data[p].table_name = t

\* no other load being inside the same table, the row of a call's table is
\* the row that call alone produces
AsAlone ==
    \A p \in Procs :
        (pc[p] # "idle" /\ data[p].table_name # Missing /\ ~overlap[p]) =>
            Row(p) = Replay(PreRow(p), ManifestLog(p))

\* C19: a load call updates only the manifest row keyed by its batch's table
\* name, and load calls for different tables, interleaved in any order, leave
\* each table's row as the call for that table leaves it when it runs alone.
C19_OwnRowAsAlone == [][OwnRowOnly /\ AsAlone']_vars

C19_Witness ==
    /\ pc[1] = "cleanup"
    /\ pc[2] = "branch"
    /\ data[1].table_name = "orders"
    /\ data[2].table_name = "users"
    /\ manifest["orders"].status = "completed"
    /\ manifest["users"].status = "failed"

====
